---- MODULE Spec2Model ----
(***************************************************************************)
(* Monte Carlo Tree Search of src/mcts/src/mcts_vanilla.py.                *)
(*                                                                         *)
(* The search tree of one think call is the sequence `nodes` (an arena of  *)
(* MCTSNode objects, the root at index 1).  The game oracle (the Board of  *)
(* p2_t3) is the variable `board`, drawn at Init from a bounded family of  *)
(* games and constant afterwards.  A game state is the sequence of actions *)
(* played from the state think was called on.                              *)
(*                                                                         *)
(* think runs as a state machine over `pc`: one step per iteration of each *)
(* loop of the source (the for loop of think and the while loops of        *)
(* traverse_nodes, rollout and backpropagate), so that the states inside   *)
(* backpropagate are states of the model.                                  *)
(*                                                                         *)
(* MCTSNode (mcts_node) and Board (p2_t3) are imported by the source and   *)
(* modelled from their contracts: a node starts with visits = wins = 0, no *)
(* children and the legal actions of its state as untried_actions, from    *)
(* which pop() takes an arbitrary one; legal_actions lists distinct        *)
(* actions, the two players move in turn, and points_values is None        *)
(* exactly on the states that are not ended.                               *)
(***************************************************************************)
EXTENDS Integers, Sequences, FiniteSets, TLC

\* ------------------------------------------------------------------ bounds

\* Number of distinct actions of the game: Actions == 1..NumActions.
NumActions == 2

\* Longest play of a game of the family, in moves.
MaxDepth == 2

\* Iteration budget of the bounded searches (the source's num_nodes is 50).
MaxBudget == 4

\* The roots get_best_action is applied to on its own: at most MaxChildren
\* children of at most MaxVisits visits each.
MaxChildren == 3
MaxVisits == 7

\* ---------------------------------------------------------- program constants

explore_constant == 2

None == 0

Actions == 1..NumActions

\* ------------------------------------------------------------- game oracle

RECURSIVE StatesOfLen(_)
StatesOfLen(n) ==
    IF n = 0 THEN {<<>>}
    ELSE {Append(s, a) : s \in StatesOfLen(n - 1), a \in Actions}

\* points_values of an ended state: identity -> score, <<score of 1, score of 2>>.
Outcomes == {<<1, -1>>, <<-1, 1>>, <<0, 0>>}

\* points_values of a state that is not ended.
NoOutcome == <<>>

\* What the oracle answers about one state: is_ended, the number k of legal
\* actions (legal_actions is 1..k) and points_values.  A state may be ended and
\* still have legal actions, or not be ended and have none; after MaxDepth moves
\* it is ended and has none.
StateKinds(depth) ==
    IF depth < MaxDepth
    THEN {[ended |-> TRUE, k |-> k, pts |-> o] : k \in 0..NumActions, o \in Outcomes}
         \cup
         {[ended |-> FALSE, k |-> k, pts |-> NoOutcome] : k \in 0..NumActions}
    ELSE {[ended |-> TRUE, k |-> 0, pts |-> o] : o \in Outcomes}

\* The games whose plays start at state s: every assignment of a kind to s and
\* to the states legal play reaches from s.
RECURSIVE GamesFrom(_)
RECURSIVE GamesWith(_, _, _)
GamesWith(s, kd, a) ==
    IF a > kd.k THEN {s :> kd}
    ELSE {f @@ g : f \in GamesWith(s, kd, a + 1), g \in GamesFrom(Append(s, a))}

GamesFrom(s) ==
    UNION {GamesWith(s, kd, 1) : kd \in StateKinds(Len(s))}

Boards ==
    {[kind |-> f, first |-> p] : f \in GamesFrom(<<>>), p \in {1, 2}}

VARIABLES
    board,          \* the game oracle
    current_state,  \* think's argument
    num_nodes,      \* the iteration budget
    bot_identity,   \* think: the player to move at current_state
    nodes,          \* the tree: nodes[i] is an MCTSNode, nodes[1] the root
    iter,           \* think: completed iterations of the for loop
    node,           \* think / traverse_nodes: the current node
    state,          \* think / traverse_nodes / rollout: the current game state
    final_state,    \* think: rollout's result
    won,            \* think: is_win's result
    bp_node,        \* backpropagate: its local node
    best_action,    \* think: get_best_action's result
    pc,             \* the position of the call
    error,          \* the exception that ended the call, or "none"
    backprops       \* history: the (node, final_state) of every backpropagate call

vars == <<board, current_state, num_nodes, bot_identity, nodes, iter, node, state,
          final_state, won, bp_node, best_action, pc, error, backprops>>

is_ended(s) == board.kind[s].ended

legal_actions(s) == 1..board.kind[s].k

points_values(s) == board.kind[s].pts

current_player(s) == IF Len(s) % 2 = 0 THEN board.first ELSE 3 - board.first

next_state(s, a) == Append(s, a)

\* ------------------------------------------------------------ MCTSNode

\* MCTSNode(parent, parent_action, action_list): a fresh node.  child_nodes is a
\* dict, kept as the sequence of its <<key, value>> items in insertion order;
\* untried_actions holds the actions of action_list.
MCTSNode(parent, parent_action, action_list) ==
    [parent          |-> parent,
     parent_action   |-> parent_action,
     child_nodes     |-> <<>>,
     untried_actions |-> action_list,
     wins            |-> 0,
     visits          |-> 0]

root_node == 1

\* dict.keys() and dict.values() of a child_nodes mapping, in its order.
Keys(d) == {d[i][1] : i \in 1..Len(d)}

Values(d) == [i \in 1..Len(d) |-> d[i][2]]

\* d[key] = value: a new key is appended, the value of a present key is replaced
\* in place.
DictSet(d, key, value) ==
    IF key \in Keys(d)
    THEN [i \in 1..Len(d) |-> IF d[i][1] = key THEN <<key, value>> ELSE d[i]]
    ELSE Append(d, <<key, value>>)

\* ------------------------------------------------------------------ ucb

\* Scores are fixed-point numbers, Scale units to 1.
Scale == 100 * 100

\* float("inf"): above every finite score.
Infinity == 100 * Scale

\* log(n) for n >= 1, in units of 1 / Scale^2, rounded.  With this precision two
\* scores compare as the source's floats do whenever parent.visits <= 12.
LogTable ==
    <<
      0, 69314718, 109861229, 138629436, 160943791, 179175947,
      194591015, 207944154, 219722458, 230258509, 239789527, 248490665,
      256494936, 263905733, 270805020, 277258872, 283321334, 289037176,
      294443898, 299573227, 304452244, 309104245, 313549422, 317805383,
      321887582, 325809654, 329583687, 333220451, 336729583, 340119738,
      343398720, 346573590, 349650756, 352636052, 355534806, 358351894,
      361091791, 363758616, 366356165, 368887945, 371357207, 373766962,
      376120012, 378418963, 380666249, 382864140, 385014760, 387120101,
      389182030, 391202301, 393182563, 395124372
    >>

\* floor(sqrt(x)), by bisection on lo..hi with lo^2 <= x < (hi+1)^2.
RECURSIVE SqrtIn(_, _, _)
SqrtIn(x, lo, hi) ==
    IF lo >= hi THEN lo
    ELSE LET mid == (lo + hi + 1) \div 2
         IN  IF mid * mid <= x THEN SqrtIn(x, mid, hi) ELSE SqrtIn(x, lo, mid - 1)

sqrt(x) == SqrtIn(x, 0, 46340)

\* ucb raises ValueError (log of 0) when the node has visits and its parent none.
UcbFails(n) ==
    nodes[n].visits # 0 /\ nodes[nodes[n].parent].visits = 0

\* The win rate of the root player whoever is to move: is_opponent not used.
ucbOfBot(n, is_opponent) ==
    IF nodes[n].visits = 0 THEN Infinity
    ELSE LET win_rate == (nodes[n].wins * Scale) \div nodes[n].visits
             logp     == LogTable[nodes[nodes[n].parent].visits]
         IN  win_rate
             + sqrt((explore_constant * explore_constant * logp) \div nodes[n].visits)

ucb(n, is_opponent) ==
    IF nodes[n].visits = 0 THEN Infinity
    ELSE LET rate     == (nodes[n].wins * Scale) \div nodes[n].visits
             win_rate == IF is_opponent THEN Scale - rate ELSE rate
             logp     == LogTable[nodes[nodes[n].parent].visits]
         IN  win_rate
             + sqrt((explore_constant * explore_constant * logp) \div nodes[n].visits)

\* max(children, key=lambda child: ucb(child, is_opponent)) from position i on,
\* best being the greatest so far: a later child replaces it only with a strictly
\* greater score, so the first of the greatest is returned.
RECURSIVE MaxUcb(_, _, _, _)
MaxUcb(children, is_opponent, i, best) ==
    IF i > Len(children) THEN best
    ELSE MaxUcb(children, is_opponent, i + 1,
                IF ucb(children[i], is_opponent) > ucb(best, is_opponent)
                THEN children[i] ELSE best)

\* ---------------------------------------------------------------- think

\* think, lines 181-182, called on one of the games of boards with a budget of
\* num_nodes = budget iterations: the identity of the bot and the root of the tree.
ThinkCall(boards, budget) ==
    /\ board \in boards
    /\ current_state = <<>>
    /\ num_nodes = budget
    /\ bot_identity = current_player(current_state)
    /\ nodes = <<MCTSNode(None, None, legal_actions(current_state))>>
    /\ iter = 0
    /\ node = None
    /\ state = current_state
    /\ final_state = current_state
    /\ won = FALSE
    /\ bp_node = None
    /\ best_action = None
    /\ pc = "for"
    /\ error = "none"
    /\ backprops = <<>>

\* think with a budget of MaxBudget iterations.
ThinkInit(boards) == ThinkCall(boards, MaxBudget)

Init == ThinkInit(Boards)

Raise(e) ==
    /\ pc' = "raised"
    /\ error' = e

\* for _ in range(num_nodes): the next iteration starts at the root, or the loop
\* is over.
ForLoop ==
    /\ pc = "for"
    /\ IF iter < num_nodes
       THEN /\ state' = current_state
            /\ node' = root_node
            /\ pc' = "traverse_nodes"
       ELSE /\ pc' = "get_best_action"
            /\ UNCHANGED <<state, node>>
    /\ UNCHANGED <<board, current_state, num_nodes, bot_identity, nodes, iter,
                   final_state, won, bp_node, best_action, error, backprops>>

\* The early return left out.
ReturnsNodeNever(n) == FALSE

\* if node.untried_actions: return node, state
ReturnsNode(n) == nodes[n].untried_actions # {}

\* One test of the while loop of traverse_nodes and, when it holds, one pass of
\* its body.
traverse_nodes ==
    /\ pc = "traverse_nodes"
    /\ LET children    == Values(nodes[node].child_nodes)
           is_opponent == current_player(state) # bot_identity
       IN  IF is_ended(state) \/ ReturnsNode(node) \/ Len(children) = 0
           THEN /\ pc' = "expand_leaf"
                /\ UNCHANGED <<node, state, error>>
           ELSE IF \E i \in 1..Len(children) : UcbFails(children[i])
           THEN /\ Raise("ValueError")
                /\ UNCHANGED <<node, state>>
           ELSE LET best_child == MaxUcb(children, is_opponent, 2, children[1])
                IN  /\ node' = best_child
                    /\ state' = next_state(state, nodes[best_child].parent_action)
                    /\ UNCHANGED <<pc, error>>
    /\ UNCHANGED <<board, current_state, num_nodes, bot_identity, nodes, iter,
                   final_state, won, bp_node, best_action, backprops>>

\* untried_actions emptied: node.untried_actions.clear().
PopActionClears(untried_actions, action) == {}

\* The action read and left in place: node.untried_actions[-1].
PopActionKeeps(untried_actions, action) == untried_actions

\* node.untried_actions.pop(), where it removes action: what is left.
PopAction(untried_actions, action) == untried_actions \ {action}

\* if node.untried_actions: node, state = expand_leaf(node, board, state)
expand_leaf ==
    /\ pc = "expand_leaf"
    /\ IF nodes[node].untried_actions # {}
       THEN \E action \in nodes[node].untried_actions :
              LET nxt   == next_state(state, action)
                  child == Len(nodes) + 1
                  popped == [nodes EXCEPT ![node].untried_actions = PopAction(@, action)]
              IN  /\ nodes' = Append(
                        [popped EXCEPT ![node].child_nodes = DictSet(@, action, child)],
                        MCTSNode(node, action, legal_actions(nxt)))
                  /\ node' = child
                  /\ state' = nxt
       ELSE UNCHANGED <<nodes, node, state>>
    /\ pc' = "rollout"
    /\ UNCHANGED <<board, current_state, num_nodes, bot_identity, iter,
                   final_state, won, bp_node, best_action, error, backprops>>

\* A rollout that plays no move: it returns the state it was given.
WhileNotEndedNever(s) == FALSE

\* while not board.is_ended(state)
WhileNotEnded(s) == ~is_ended(s)

\* One test of the while loop of rollout and, when it holds, one random move.
rollout ==
    /\ pc = "rollout"
    /\ IF ~WhileNotEnded(state)
       THEN /\ final_state' = state
            /\ pc' = "is_win"
            /\ UNCHANGED <<state, error>>
       ELSE IF legal_actions(state) = {}
       THEN /\ Raise("IndexError")
            /\ UNCHANGED <<state, final_state>>
       ELSE \E action \in legal_actions(state) :
              /\ state' = next_state(state, action)
              /\ UNCHANGED <<final_state, pc, error>>
    /\ UNCHANGED <<board, current_state, num_nodes, bot_identity, nodes, iter, node,
                   won, bp_node, best_action, backprops>>

\* A draw taken for a win: outcome[identity_of_bot] >= 0.
IsWinValueOrDraw(outcome, identity_of_bot) == outcome[identity_of_bot] >= 0

\* is_win(board, state, identity_of_bot), where the outcome is not None.
IsWinValue(outcome, identity_of_bot) == outcome[identity_of_bot] = 1

\* won = is_win(board, final_state, bot_identity), and the call of backpropagate.
is_win ==
    /\ pc = "is_win"
    /\ LET outcome == points_values(final_state)
       IN  IF outcome = NoOutcome
           THEN /\ Raise("AssertionError")
                /\ UNCHANGED <<won, bp_node, backprops>>
           ELSE /\ won' = IsWinValue(outcome, bot_identity)
                /\ bp_node' = node
                /\ backprops' = Append(backprops, [node |-> node, final_state |-> final_state])
                /\ pc' = "backpropagate"
                /\ UNCHANGED error
    /\ UNCHANGED <<board, current_state, num_nodes, bot_identity, nodes, iter, node,
                   state, final_state, best_action>>

\* A loop that stops below the root: while node.parent is not None.
WhileNodeHasParent(n) == n # None /\ nodes[n].parent # None

\* while node is not None
WhileNode(n) == n # None

\* node.visits += 1
VisitsUpdate(nd, n) == [nd EXCEPT ![n].visits = @ + 1]

\* A win counted twice: node.wins += 2.
WinsUpdateTwice(nd, n, w) == IF w THEN [nd EXCEPT ![n].wins = @ + 2] ELSE nd

\* if won: node.wins += 1
WinsUpdate(nd, n, w) == IF w THEN [nd EXCEPT ![n].wins = @ + 1] ELSE nd

\* while node is not None: node.visits += 1, or the return of backpropagate,
\* which ends the iteration.
backpropagate_visits ==
    /\ pc = "backpropagate"
    /\ IF WhileNode(bp_node)
       THEN /\ nodes' = VisitsUpdate(nodes, bp_node)
            /\ pc' = "backpropagate_wins"
            /\ UNCHANGED iter
       ELSE /\ iter' = iter + 1
            /\ pc' = "for"
            /\ UNCHANGED nodes
    /\ UNCHANGED <<board, current_state, num_nodes, bot_identity, node, state,
                   final_state, won, bp_node, best_action, error, backprops>>

\* if won: node.wins += 1; node = node.parent
backpropagate_wins ==
    /\ pc = "backpropagate_wins"
    /\ nodes' = WinsUpdate(nodes, bp_node, won)
    /\ bp_node' = nodes[bp_node].parent
    /\ pc' = "backpropagate"
    /\ UNCHANGED <<board, current_state, num_nodes, bot_identity, iter, node, state,
                   final_state, won, best_action, error, backprops>>

\* The last of the greatest: a later item replaces best on an equal count too.
RECURSIVE MaxVisitsItemLast(_, _, _, _)
MaxVisitsItemLast(items, nd, i, best) ==
    IF i > Len(items) THEN best
    ELSE MaxVisitsItemLast(items, nd, i + 1,
                           IF nd[items[i][2]].visits >= nd[best[2]].visits
                           THEN items[i] ELSE best)

\* max(items, key=lambda item: item[1].visits) from position i on, best being the
\* greatest so far; nd is the tree the items' nodes live in.
RECURSIVE MaxVisitsItem(_, _, _, _)
MaxVisitsItem(items, nd, i, best) ==
    IF i > Len(items) THEN best
    ELSE MaxVisitsItem(items, nd, i + 1,
                       IF nd[items[i][2]].visits > nd[best[2]].visits
                       THEN items[i] ELSE best)

\* max given a default: it never raises.
MaxNeverRaises(items) == FALSE

\* max of an empty sequence, with no default, raises ValueError.
MaxRaises(items) == Len(items) = 0

\* The node of the item max returns, not its key.
BestItemNode(child_nodes, nd) ==
    IF Len(child_nodes) = 0 THEN None
    ELSE MaxVisitsItem(child_nodes, nd, 2, child_nodes[1])[2]

\* get_best_action(root_node): the key of the item max returns.
BestItem(child_nodes, nd) ==
    IF Len(child_nodes) = 0 THEN None
    ELSE MaxVisitsItem(child_nodes, nd, 2, child_nodes[1])[1]

\* best_action = get_best_action(root_node); return best_action
get_best_action ==
    /\ pc = "get_best_action"
    /\ IF MaxRaises(nodes[root_node].child_nodes)
       THEN /\ Raise("ValueError")
            /\ UNCHANGED best_action
       ELSE /\ best_action' = BestItem(nodes[root_node].child_nodes, nodes)
            /\ pc' = "returned"
            /\ UNCHANGED error
    /\ UNCHANGED <<board, current_state, num_nodes, bot_identity, nodes, iter, node,
                   state, final_state, won, bp_node, backprops>>

\* counts[i] + ... + counts[n]
RECURSIVE SumVisits(_, _, _)
SumVisits(counts, i, n) ==
    IF i > n THEN 0 ELSE counts[i] + SumVisits(counts, i + 1, n)

Next ==
    \/ ForLoop
    \/ traverse_nodes
    \/ expand_leaf
    \/ rollout
    \/ is_win
    \/ backpropagate_visits
    \/ backpropagate_wins
    \/ get_best_action

Spec == Init /\ [][Next]_vars

\* think on the games whose current_state has no legal action.  think is one
\* synchronous call: it keeps running until it returns or raises.
EmptyRootBoards ==
    {[kind |-> <<>> :> kd, first |-> p] :
        kd \in {x \in StateKinds(0) : x.k = 0}, p \in {1, 2}}

InitEmptyRoot == ThinkInit(EmptyRootBoards)

SpecEmptyRoot == InitEmptyRoot /\ [][Next]_vars /\ WF_vars(Next)

\* ------------------------------------- games with states of no outcome

\* The games of at most one move in which points_values may be None on a state
\* that is ended, against its contract.
NoOutcomeBoards ==
    LET pts   == Outcomes \cup {NoOutcome}
        roots == {[ended |-> TRUE, k |-> k, pts |-> o] : k \in 0..NumActions, o \in pts}
                 \cup
                 {[ended |-> FALSE, k |-> k, pts |-> NoOutcome] : k \in 0..NumActions}
    IN  UNION {
          {[kind  |-> (<<>> :> kd)
                      @@ [s \in {<<a>> : a \in 1..kd.k} |->
                             [ended |-> TRUE, k |-> 0, pts |-> o[s[1]]]],
            first |-> p] :
              o \in [1..kd.k -> pts], p \in {1, 2}} :
          kd \in roots}

InitNoOutcome == ThinkInit(NoOutcomeBoards)

SpecNoOutcome == InitNoOutcome /\ [][Next]_vars

\* --------------------------------------------- the win / loss / draw game

\* num_nodes of the source: the budget of think.
NumNodes == 50

\* The games whose first state has 3 legal actions, one leading to a win, one to
\* a loss and one to a draw of the first player, each ending the game: every
\* order of the three and either identity of the first player.
WinLossDrawBoards ==
    {[kind  |-> (<<>> :> [ended |-> FALSE, k |-> 3, pts |-> NoOutcome])
                @@ [s \in {<<1>>, <<2>>, <<3>>} |->
                       [ended |-> TRUE, k |-> 0, pts |-> o[s[1]]]],
      first |-> p] :
        o \in {f \in [1..3 -> Outcomes] : \A i, j \in 1..3 : f[i] = f[j] => i = j},
        p \in {1, 2}}

InitWinLossDraw == ThinkCall(WinLossDrawBoards, NumNodes)

SpecWinLossDraw == InitWinLossDraw /\ [][Next]_vars

\* ------------------------------------------------- get_best_action on its own

\* A root after a search: c children, the i-th inserted under key keys[i] with
\* visits[i] visits, all of them won or none.
RootWithChildren(c, keys, visits, allwon) ==
    <<[parent          |-> None,
       parent_action   |-> None,
       child_nodes     |-> [i \in 1..c |-> <<keys[i], i + 1>>],
       untried_actions |-> {},
       wins            |-> SumVisits([i \in 1..c |-> IF allwon[i] THEN visits[i] ELSE 0], 1, c),
       visits          |-> SumVisits(visits, 1, c)]>>
    \o [i \in 1..c |->
          [parent          |-> root_node,
           parent_action   |-> keys[i],
           child_nodes     |-> <<>>,
           untried_actions |-> {},
           wins            |-> IF allwon[i] THEN visits[i] ELSE 0,
           visits          |-> visits[i]]]

\* The state think is in when it calls get_best_action, for every root with 1 to
\* MaxChildren children of 1 to MaxVisits visits each.
InitBest ==
    \E c \in 1..MaxChildren :
      \E keys \in Permutations(1..c), visits \in [1..c -> 1..MaxVisits],
         allwon \in [1..c -> BOOLEAN] :
        /\ board = [kind  |-> <<>> :> [ended |-> FALSE, k |-> c, pts |-> NoOutcome],
                    first |-> 1]
        /\ current_state = <<>>
        /\ nodes = RootWithChildren(c, keys, visits, allwon)
        /\ num_nodes = nodes[root_node].visits
        /\ iter = num_nodes
        /\ bot_identity = 1
        /\ node = None
        /\ state = current_state
        /\ final_state = current_state
        /\ won = FALSE
        /\ bp_node = None
        /\ best_action = None
        /\ pc = "get_best_action"
        /\ error = "none"
        /\ backprops = <<>>

NextBest == get_best_action

SpecBest == InitBest /\ [][NextBest]_vars

\* ------------------------------------------------------- derived quantities

NodeIds == 1..Len(nodes)

\* The game state a node stands for: current_state advanced by the parent_action
\* of every node on the path from the root.
RECURSIVE NodeState(_)
NodeState(n) ==
    IF nodes[n].parent = None THEN current_state
    ELSE next_state(NodeState(nodes[n].parent), nodes[n].parent_action)

\* The nodes backpropagate(n, won) updates: n and its ancestors.
RECURSIVE PathToRoot(_)
PathToRoot(n) ==
    IF n = None THEN {} ELSE {n} \cup PathToRoot(nodes[n].parent)

\* The sum of the visits of the children of n.
ChildVisits(n) ==
    LET children == Values(nodes[n].child_nodes)
    IN  SumVisits([i \in 1..Len(children) |-> nodes[children[i]].visits], 1,
                  Len(children))

\* No iteration is under way: before the first, between two, after the last.
IterationBoundary == pc \in {"for", "get_best_action", "returned"}

\* -------------------------------------------------------------- properties

\* C1: after N completed iterations of the loop of think (0 <= N <= budget) the
\* root's visits is exactly N.
C1_RootVisitsEqualsIterations ==
    IterationBoundary =>
        /\ iter <= num_nodes
        /\ nodes[root_node].visits = iter

C1_Witness ==
    /\ pc = "for"
    /\ iter = num_nodes
    /\ iter >= 2
    /\ nodes[root_node].visits = iter
    /\ Len(nodes) > 2

\* C2: in every reachable state, the states inside backpropagate between the
\* update of visits and the update of wins included, 0 <= wins <= visits holds
\* for every node.
C2_WinsAtMostVisits ==
    \A n \in NodeIds : 0 <= nodes[n].wins /\ nodes[n].wins <= nodes[n].visits

C2_Witness ==
    /\ pc = "backpropagate_wins"
    /\ won
    /\ nodes[bp_node].visits = nodes[bp_node].wins + 1
    /\ nodes[bp_node].wins >= 1

\* C3: for every node, untried_actions and the keys of child_nodes are disjoint
\* and together are exactly the legal actions of the node's state.
C3_UntriedAndChildrenPartitionLegal ==
    \A n \in NodeIds :
        /\ nodes[n].untried_actions \cap Keys(nodes[n].child_nodes) = {}
        /\ nodes[n].untried_actions \cup Keys(nodes[n].child_nodes)
               = legal_actions(NodeState(n))

C3_Witness ==
    \E n \in NodeIds :
        /\ n # root_node
        /\ nodes[n].untried_actions # {}
        /\ nodes[n].child_nodes # <<>>
        /\ pc = "rollout"

\* C4 as stated: a node's visits is at least the sum of its children's visits in
\* every reachable state, also while backpropagate is part-way up the path.
C4_VisitsAtLeastChildrenAlways ==
    \A n \in NodeIds : nodes[n].visits >= ChildVisits(n)

\* The node backpropagate updates next, when it has already updated a child of it.
AwaitingVisit ==
    IF pc = "backpropagate" /\ bp_node # node THEN bp_node
    ELSE IF pc = "backpropagate_wins" THEN nodes[bp_node].parent
    ELSE None

\* C4 amended: a node's visits is at least the sum of its children's visits in
\* every state outside backpropagate and, inside it, for every node but the one
\* it updates next, which is short of the sum by at most 1.
C4_VisitsAtLeastChildren ==
    \A n \in NodeIds :
        IF n = AwaitingVisit
        THEN nodes[n].visits + 1 >= ChildVisits(n)
        ELSE nodes[n].visits >= ChildVisits(n)

C4_Witness ==
    /\ pc = "backpropagate_wins"
    /\ nodes[bp_node].parent # None
    /\ nodes[nodes[bp_node].parent].visits + 1 = ChildVisits(nodes[bp_node].parent)
    /\ nodes[bp_node].child_nodes # <<>>
    /\ nodes[bp_node].visits >= ChildVisits(bp_node)

\* The backpropagate calls so far that updated node n.
CallsThrough(n) ==
    {i \in 1..Len(backprops) : n \in PathToRoot(backprops[i].node)}

\* C5: between iterations every node's visits is the number of backpropagate
\* calls whose path held the node, and its wins the number of those whose
\* rollout ended in a state scoring exactly 1 for the player to move at the root.
C5_VisitsAndWinsCountPaths ==
    IterationBoundary =>
        \A n \in NodeIds :
            /\ nodes[n].visits = Cardinality(CallsThrough(n))
            /\ nodes[n].wins = Cardinality(
                   {i \in CallsThrough(n) :
                       points_values(backprops[i].final_state)
                           [current_player(current_state)] = 1})

C5_Witness ==
    /\ pc = "returned"
    /\ \E n \in NodeIds :
           /\ n # root_node
           /\ nodes[n].wins = 1
           /\ nodes[n].visits = 2
           /\ nodes[n].child_nodes # <<>>
           /\ nodes[root_node].wins < nodes[root_node].visits
    /\ \E i \in 1..Len(backprops) : points_values(backprops[i].final_state) = <<0, 0>>

\* C6: get_best_action on a root with children returns the key of the first
\* inserted child among those with the greatest visits, whatever the wins; for
\* visits {A:3, B:7, C:1} it returns B.
C6_BestActionIsFirstMostVisited ==
    pc = "returned" =>
        LET items == nodes[root_node].child_nodes
        IN  \E i \in 1..Len(items) :
              /\ best_action = items[i][1]
              /\ \A j \in 1..Len(items) :
                    nodes[items[j][2]].visits <= nodes[items[i][2]].visits
              /\ \A j \in 1..(i - 1) :
                    nodes[items[j][2]].visits < nodes[items[i][2]].visits

C6_Witness ==
    /\ pc = "returned"
    /\ Len(nodes[root_node].child_nodes) = 3
    /\ nodes[2].visits = 3 /\ nodes[3].visits = 7 /\ nodes[4].visits = 1
    /\ nodes[2].wins = 3 /\ nodes[3].wins = 0
    /\ best_action = nodes[3].parent_action
    /\ best_action = 1

\* Every key of a child mapping is held once, and every node but the root is
\* held once in the tree: by its parent, under its parent_action.
C7_ExpandedOnce ==
    /\ \A n \in NodeIds :
          Cardinality(Keys(nodes[n].child_nodes)) = Len(nodes[n].child_nodes)
    /\ \A n \in NodeIds \ {root_node} :
          /\ nodes[n].parent \in NodeIds
          /\ \E i \in 1..Len(nodes[nodes[n].parent].child_nodes) :
                nodes[nodes[n].parent].child_nodes[i] = <<nodes[n].parent_action, n>>
          /\ Cardinality({<<q, i>> \in NodeIds \X (1..NumActions) :
                            /\ i <= Len(nodes[q].child_nodes)
                            /\ nodes[q].child_nodes[i][2] = n}) = 1
    /\ Len(nodes) <= iter + (IF pc \in {"for", "traverse_nodes", "expand_leaf",
                                        "get_best_action", "returned"}
                             THEN 1 ELSE 2)

\* A step keeps every node, its parent link and the items of its child mapping,
\* and adds at most one node, in expand_leaf.
C7_NodesKept ==
    /\ Len(nodes') \in {Len(nodes), Len(nodes) + 1}
    /\ Len(nodes') # Len(nodes) => pc = "expand_leaf"
    /\ \A n \in NodeIds :
          /\ nodes'[n].parent = nodes[n].parent
          /\ nodes'[n].parent_action = nodes[n].parent_action
          /\ Len(nodes'[n].child_nodes) >= Len(nodes[n].child_nodes)
          /\ \A i \in 1..Len(nodes[n].child_nodes) :
                nodes'[n].child_nodes[i] = nodes[n].child_nodes[i]

\* C7: within one think call every action of a node is expanded at most once,
\* every node but the root is created once and stays in its parent's child
\* mapping under its action, and an iteration adds at most one node: after N
\* iterations the tree has at most N + 1 nodes.
C7_NodesCreatedOnceAndKept == [](C7_ExpandedOnce) /\ [][C7_NodesKept]_vars

C7_Witness ==
    /\ pc = "returned"
    /\ Len(nodes) = num_nodes + 1
    /\ Len(nodes[root_node].child_nodes) = 2
    /\ \E n \in NodeIds \ {root_node} : Len(nodes[n].child_nodes) = 2

\* C8: while a node whose state is not ended has an untried action, none of its
\* children has a child of its own or is visited a second time: each has
\* visits = 1 between iterations.
C8_BreadthBeforeDepth ==
    \A n \in NodeIds :
        (~is_ended(NodeState(n)) /\ nodes[n].untried_actions # {}) =>
            \A i \in 1..Len(nodes[n].child_nodes) :
                LET c == nodes[n].child_nodes[i][2]
                IN  /\ nodes[c].child_nodes = <<>>
                    /\ nodes[c].visits <= 1
                    /\ IterationBoundary => nodes[c].visits = 1

C8_Witness ==
    /\ pc = "expand_leaf"
    /\ node # root_node
    /\ ~is_ended(state)
    /\ nodes[node].untried_actions # {}
    /\ nodes[node].child_nodes # <<>>
    /\ nodes[nodes[node].child_nodes[1][2]].visits = 1

\* C9 as stated: think on a current_state that is ended does not raise, and its
\* selection returns the root with the state unchanged.
C9_EndedRootNeverRaises ==
    is_ended(current_state) =>
        /\ error = "none"
        /\ pc = "expand_leaf" => (node = root_node /\ state = current_state)

\* C10: think on a current_state with no legal action never returns an action,
\* whether that state is ended or not, and ends by raising an error.
C10_EmptyRootIsFatal ==
    /\ [](pc # "returned" /\ best_action = None)
    /\ <>(pc = "raised" /\ error # "none")

C10_Witness ==
    /\ pc = "raised"
    /\ error = "ValueError"
    /\ is_ended(current_state)
    /\ iter = num_nodes
    /\ nodes[root_node].visits = num_nodes


\* The game is finite and keeps the oracle's contract: every state that is not
\* ended has a legal action (plays are at most MaxDepth moves long).
FiniteGame ==
    \A s \in DOMAIN board.kind : ~board.kind[s].ended => board.kind[s].k >= 1

\* C11 as stated: on a finite game every rollout ends in a state that is ended,
\* no walk or rollout raises, and think runs its budget of iterations and then
\* returns.
C11_FiniteGameThinkReturns ==
    FiniteGame =>
        /\ pc = "is_win" => is_ended(final_state)
        /\ pc \in {"get_best_action", "returned"} => iter = num_nodes
        /\ error = "none"


\* The child of the root under action a.
RootChild(a) ==
    CHOOSE n \in NodeIds : nodes[n].parent = root_node /\ nodes[n].parent_action = a

\* The action that leads to the win of the player to move at current_state.
WinningAction ==
    CHOOSE a \in legal_actions(current_state) :
        points_values(next_state(current_state, a))[current_player(current_state)] = 1

\* C12: on the game with 3 actions leading to a win, a loss and a draw, after the
\* 50 iterations the child under the winning action has strictly more visits
\* than each of the other two, and think returns the winning action.
C12_WinningActionChosen ==
    /\ pc \in {"get_best_action", "returned"} =>
          /\ iter = NumNodes
          /\ Len(nodes[root_node].child_nodes) = 3
          /\ \A a \in legal_actions(current_state) \ {WinningAction} :
                nodes[RootChild(WinningAction)].visits > nodes[RootChild(a)].visits
    /\ pc = "returned" => best_action = WinningAction
    /\ pc # "raised"

C12_Witness ==
    /\ pc = "returned"
    /\ best_action = WinningAction
    /\ best_action = 2
    /\ nodes[root_node].visits = 50
    /\ nodes[RootChild(WinningAction)].visits = 38
    /\ nodes[RootChild(1)].visits = 6
    /\ nodes[RootChild(3)].visits = 6


\* is_win is called on the state rollout returned, which is ended, and its
\* assertion fails only on a state of no outcome.
C13_IsWinOnEndedState ==
    /\ pc = "is_win" => (final_state = state /\ is_ended(final_state))
    /\ error = "AssertionError" =>
          (pc = "raised" /\ points_values(final_state) = NoOutcome)
    /\ (\A s \in DOMAIN board.kind :
           board.kind[s].ended => board.kind[s].pts # NoOutcome)
          => error # "AssertionError"

\* is_win on a state of no outcome raises AssertionError and yields no value.
C13_IsWinAsserts ==
    (pc = "is_win" /\ points_values(final_state) = NoOutcome) =>
        /\ pc' = "raised"
        /\ error' = "AssertionError"
        /\ won' = won
        /\ nodes' = nodes
        /\ backprops' = backprops

\* C13: during a search is_win is called only on the state rollout returned,
\* for which is_ended is true, so its assertion never fails on an oracle that
\* keeps its contract; given a state with no outcome, is_win fails with an
\* assertion error and returns no win/loss value.
C13_OutcomeOnlyOfEndedStates == [](C13_IsWinOnEndedState) /\ [][C13_IsWinAsserts]_vars

C13_Witness ==
    /\ pc = "raised"
    /\ error = "AssertionError"
    /\ is_ended(final_state)
    /\ iter >= 1
    /\ nodes[root_node].wins >= 1


\* traverse_nodes is about to score the children of node with ucb.
Scoring ==
    /\ pc = "traverse_nodes"
    /\ ~is_ended(state)
    /\ ~ReturnsNode(node)
    /\ Len(nodes[node].child_nodes) > 0

\* C14: at every iteration boundary, and all through selection, every node but
\* the root has visits >= 1 and a parent with visits >= 1; so every child that
\* ucb scores is visited and has a visited parent, the logarithm of 0 is never
\* taken, and the only ValueError of think is that of get_best_action.
C14_ScoredNodesAreVisited ==
    /\ (IterationBoundary \/ pc = "traverse_nodes") =>
          \A n \in NodeIds \ {root_node} :
              nodes[n].visits >= 1 /\ nodes[nodes[n].parent].visits >= 1
    /\ Scoring =>
          /\ nodes[node].visits >= 1
          /\ \A i \in 1..Len(nodes[node].child_nodes) :
                LET child == nodes[node].child_nodes[i][2]
                IN  /\ nodes[child].parent = node
                    /\ nodes[child].visits >= 1
                    /\ ~UcbFails(child)
                    /\ ucb(child, FALSE) < Infinity
    /\ error = "ValueError" => (iter = num_nodes /\ nodes[root_node].child_nodes = <<>>)

C14_Witness ==
    /\ Scoring
    /\ node = root_node
    /\ Len(nodes[node].child_nodes) = 2
    /\ \E i \in 1..2 : nodes[nodes[node].child_nodes[i][2]].visits = 2


\* C15 as stated: a node whose game state is ended has no child and all of its
\* legal actions untried.  Violated: think expands whenever the node selection
\* returned has an untried action, whether its state is ended or not.
C15_NoChildUnderEndedNode ==
    \A n \in NodeIds :
        is_ended(NodeState(n)) =>
            /\ nodes[n].child_nodes = <<>>
            /\ nodes[n].untried_actions = legal_actions(NodeState(n))


\* A step of traverse_nodes that descends from node to the child it chose.
C16_Descent ==
    (Scoring /\ node' # node) =>
        LET children    == Values(nodes[node].child_nodes)
            is_opponent == current_player(state) # bot_identity
            chosen      == node'
            pos         == CHOOSE i \in 1..Len(children) : children[i] = chosen
        IN  /\ \E i \in 1..Len(children) : children[i] = chosen
            /\ state' = next_state(state, nodes[chosen].parent_action)
            /\ \A i \in 1..Len(children) :
                  LET c == children[i]
                  IN  /\ nodes[c].visits = nodes[chosen].visits =>
                            /\ ~is_opponent => nodes[chosen].wins >= nodes[c].wins
                            /\ is_opponent => nodes[chosen].wins <= nodes[c].wins
                            /\ nodes[c].wins = nodes[chosen].wins => pos <= i
                      /\ ucb(c, is_opponent) <= ucb(chosen, is_opponent)
                      /\ ucb(c, is_opponent) = ucb(chosen, is_opponent) => pos <= i

\* C16: when traverse_nodes chooses among the children of a fully expanded node,
\* then among children of equal visits it takes one of most wins if the root
\* player is to move and one of fewest wins if the opponent is to move, and among
\* children of equal score the first in the order of the child mapping.
C16_SelectionByPlayerToMove == [][C16_Descent]_vars

C16_Witness ==
    /\ pc = "traverse_nodes"
    /\ node # None
    /\ nodes[node].parent \notin {None, root_node}
    /\ current_player(NodeState(nodes[node].parent)) # bot_identity
    /\ \E c \in NodeIds :
          /\ c # node
          /\ nodes[c].parent = nodes[node].parent
          /\ nodes[c].visits = nodes[node].visits
          /\ nodes[c].wins > nodes[node].wins


\* The nodes traverse_nodes passed through to reach n: its proper ancestors.
PassedThrough(n) == PathToRoot(n) \ {n}

\* C17: for a game with a legal action in every state that is not ended, the
\* pair (node, state) traverse_nodes returns has is_ended(state) or an untried
\* action at node; every node passed through on the way down had no untried
\* action (and a state not ended); and state is the root state advanced by the
\* parent_action of each node on the path from the root to node.
C17_TraverseReturnsExpandableOrTerminal ==
    (FiniteGame /\ pc \in {"traverse_nodes", "expand_leaf"}) =>
        /\ state = NodeState(node)
        /\ \A m \in PassedThrough(node) :
              nodes[m].untried_actions = {} /\ ~is_ended(NodeState(m))
        /\ pc = "expand_leaf" => (is_ended(state) \/ nodes[node].untried_actions # {})

C17_Witness ==
    /\ FiniteGame
    /\ pc = "expand_leaf"
    /\ is_ended(state)
    /\ nodes[node].untried_actions = {}
    /\ Cardinality(PassedThrough(node)) = 2


\* The fields of node n that make the tree's structure, and its statistics.
Structure(nd, n) ==
    <<nd[n].parent, nd[n].parent_action, nd[n].child_nodes, nd[n].untried_actions>>

Statistics(nd, n) == <<nd[n].visits, nd[n].wins>>

\* What one step may change in the tree.
C18_Frame ==
    /\ pc \in {"for", "traverse_nodes", "rollout", "is_win", "get_best_action"} =>
          nodes' = nodes
    /\ pc = "expand_leaf" =>
          \/ nodes' = nodes
          \/ /\ Len(nodes') = Len(nodes) + 1
             /\ \A n \in NodeIds \ {node} : nodes'[n] = nodes[n]
             /\ Statistics(nodes', node) = Statistics(nodes, node)
             /\ nodes'[node].parent = nodes[node].parent
             /\ nodes'[node].parent_action = nodes[node].parent_action
             /\ \E action \in nodes[node].untried_actions :
                   /\ nodes'[node].untried_actions = nodes[node].untried_actions \ {action}
                   /\ nodes'[node].child_nodes =
                          Append(nodes[node].child_nodes, <<action, Len(nodes) + 1>>)
                   /\ nodes'[Len(nodes) + 1] =
                          MCTSNode(node, action, legal_actions(next_state(state, action)))
    /\ pc \in {"backpropagate", "backpropagate_wins"} =>
          /\ Len(nodes') = Len(nodes)
          /\ \A n \in NodeIds : Structure(nodes', n) = Structure(nodes, n)

\* C18: traverse_nodes and rollout change no field of any node; within an
\* iteration only expand_leaf changes the structure of the tree, and only one
\* node's untried set and child mapping besides the node it adds, and only
\* backpropagate changes visits and wins.
C18_SelectionAndRolloutKeepTree == [][C18_Frame]_vars

C18_Witness ==
    /\ pc = "is_win"
    /\ iter >= 2
    /\ Len(nodes) >= 3
    /\ nodes[node].parent \notin {None, root_node}
    /\ nodes[node].visits = 0
    /\ nodes[nodes[node].parent].visits >= 1
    /\ final_state = NodeState(node)


\* C19: when think returns, the action it returns is a legal action of the root
\* state and the key, in the root's child mapping, of a child of the root that
\* this call created with that action.
C19_ReturnedActionIsLegalRootChild ==
    pc = "returned" =>
        /\ iter = num_nodes
        /\ best_action \in legal_actions(current_state)
        /\ best_action \notin nodes[root_node].untried_actions
        /\ \E i \in 1..Len(nodes[root_node].child_nodes) :
              LET item == nodes[root_node].child_nodes[i]
              IN  /\ item[1] = best_action
                  /\ item[2] \in NodeIds \ {root_node}
                  /\ nodes[item[2]].parent = root_node
                  /\ nodes[item[2]].parent_action = best_action
                  /\ nodes[item[2]].visits >= 1

C19_Witness ==
    /\ pc = "returned"
    /\ ~is_ended(current_state)
    /\ legal_actions(current_state) # {}
    /\ num_nodes >= 1
    /\ Len(nodes[root_node].child_nodes) = 2
    /\ nodes[root_node].child_nodes[2][1] = best_action


\* The iterations whose backpropagate was called on node n.
StartedAt(n) == {i \in 1..Len(backprops) : backprops[i].node = n}

\* C20: at every iteration boundary each node's visits is the sum of its
\* children's visits plus the number of iterations whose backpropagate started
\* at the node; when the root state is not ended and has a legal action none
\* starts at the root, so the root's visits is the sum of its children's visits,
\* which is the budget when think returns.
C20_VisitsAreChildrenPlusStarts ==
    IterationBoundary =>
        /\ Len(backprops) = iter
        /\ \A n \in NodeIds :
              nodes[n].visits = ChildVisits(n) + Cardinality(StartedAt(n))
        /\ (~is_ended(current_state) /\ legal_actions(current_state) # {}) =>
              /\ StartedAt(root_node) = {}
              /\ nodes[root_node].visits = ChildVisits(root_node)
              /\ pc = "returned" => ChildVisits(root_node) = num_nodes

C20_Witness ==
    /\ pc = "returned"
    /\ ~is_ended(current_state)
    /\ legal_actions(current_state) # {}
    /\ ChildVisits(root_node) = num_nodes
    /\ \E n \in NodeIds \ {root_node} :
          /\ ChildVisits(n) >= 1
          /\ Cardinality(StartedAt(n)) = 1
          /\ ~is_ended(NodeState(n))

====
